---- MODULE Spec2Model ----
(***************************************************************************)
(* Model of executeBulkOperation (the bounded-concurrency bulk executor of  *)
(* the bookmark front end, src/unnamed/part_001 lines 219-283).             *)
(*                                                                         *)
(* The host runtime is a single-threaded event loop: code between two      *)
(* awaits runs without interleaving.  Every action below is one such       *)
(* uninterrupted run of code.  The synchronous prefix of the call (the     *)
(* worker spawn loop) is split into one step per loop iteration; no other  *)
(* action is enabled while it runs, so the split adds no interleaving.     *)
(*                                                                         *)
(* The progress callback is taken to return normally (its contract).       *)
(***************************************************************************)
EXTENDS Integers, Sequences, FiniteSets, Bags, TLC

\* ------------------------------------------------------------------ bounds
MaxLen == 3
MaxConcurrency == 5
MaxLenEach == 2

\* -------------------------------------------------------- program constants
DefaultConcurrency == 3

\* ------------------------------------------------------------------ inputs
\* Bookmark ids are strings; "" is the one falsy string.
Ids == {"a", "b", ""}
NoId == "<none>"

IdSeqs == UNION {[1..n -> Ids] : n \in 0..MaxLen}

\* What the operation can throw or reject with: an Error with a message, an
\* Error without one (new Error()), or a value that is no Error; str is
\* String(value).
ErrorValues == {[isError |-> TRUE, message |-> "404 not found", str |-> "Error: 404 not found"],
                [isError |-> TRUE, message |-> "", str |-> "Error"],
                [isError |-> FALSE, message |-> "", str |-> "boom"]}

\* What calling a missing operation throws: a TypeError of the runtime.
NotAFunction == [isError |-> TRUE, message |-> "operation is not a function",
                 str |-> "TypeError: operation is not a function"]

\* The operation argument: a function, or no function at all (undefined).
OperationValues == {"function", "missing"}

\* options: concurrency is <<>> when omitted, <<k>> when given: negative,
\* zero, small, or larger than any ids sequence.
OptionValues == {[concurrency |-> c, onProgress |-> p] :
                   c \in {<<>>} \cup {<<k>> : k \in (-1..2) \cup {MaxConcurrency}},
                   p \in BOOLEAN}

VARIABLES
    bookmarkIds,   \* argument: the ids
    operation,     \* argument: the operation ("function" or "missing")
    options,       \* argument: {concurrency?, onProgress?}
    queue,         \* const queue = [...bookmarkIds]
    succeeded,     \* string[]
    failed,        \* Array<{bookmarkId, error}>
    inProgress,    \* Set<string>
    workers,       \* the workers array: one record per spawned async worker
    pc,            \* position of the call: "spawn", "join", "resolved" ("idle": no call)
    result,        \* <<>> until the call resolves, then <<{succeeded, failed}>>
    snapshots,     \* history: the arguments of the onProgress invocations
    calls,         \* history: the arguments of the operation invocations
    caught,        \* history: the ids and values the catch block received
    other,         \* <<>>, or <<c>>: the state of a second, overlapping call
    server,        \* the response the back end gives to a request about each id
    handlers,      \* useKeyboardNavigation: <<>>, or <<the set of handlers given>>
    keyEvent,      \* useKeyboardNavigation: <<>>, or <<the keydown event handled last>>
    invoked,       \* history: the handlers that event invoked, in order
    isSelectionMode, \* useBookmarkSelection: the selection mode flag
    selectedIds,   \* useBookmarkSelection: the Set of selected ids, in insertion order
    lastToggle,    \* history: <<>>, or <<the mode and whether ids were selected
                   \* when toggleSelectionMode was last called>>
    bulkState,     \* useBulkOperation: <<>> (not mounted), or <<its state>>
    listId,        \* PaginatedBookmarkGrid: the list shown ("" when not mounted)
    bookmarks,     \* PaginatedBookmarkGrid: the ids of the bookmarks it holds
    cursor,        \* PaginatedBookmarkGrid: <<>>, or <<the next page to load>>
    deleting,      \* the single deletes in flight, each with the isSelected it captured
    bookmark,      \* useBookmarkMutation: the bookmark its parent holds (<<>>: no hook)
    editingBookmark, \* the grid's editingBookmark: <<>>, or <<the bookmark the modal got>>
    mutationState, \* useBookmarkMutation: its MutationState {isLoading, error}
    pending,       \* the executeWithOptimism calls awaiting serverMutation()
    started,       \* the number of executeWithOptimism calls made so far
    ended          \* history: <<>>, or <<how the executeWithOptimism call that ended last ended>>

\* The variables of one call of executeBulkOperation.
callVars == <<bookmarkIds, operation, options, queue, succeeded, failed, inProgress,
              workers, pc, result, snapshots, calls, caught>>

\* The variables of each hook or component.
keyVars == <<handlers, keyEvent, invoked>>
selectionVars == <<isSelectionMode, selectedIds, lastToggle>>
gridVars == <<listId, bookmarks, cursor, deleting>>
mutationVars == <<bookmark, editingBookmark, mutationState, pending, started, ended>>

\* What lives outside a call of executeBulkOperation and is not written by
\* its progress callback.
hostVars == <<server, keyVars, selectionVars, gridVars, mutationVars>>

vars == <<bookmarkIds, operation, options, queue, succeeded, failed, inProgress,
          workers, pc, result, snapshots, calls, caught, other, bulkState, hostVars>>

\* No key has been pressed and no handlers are registered.
KeyboardIdle ==
    /\ handlers = <<>>
    /\ keyEvent = <<>>
    /\ invoked = <<>>

\* useState(false), useState(new Set())
SelectionIdle ==
    /\ isSelectionMode = FALSE
    /\ selectedIds = <<>>
    /\ lastToggle = <<>>

\* No grid is mounted.
GridIdle ==
    /\ listId = ""
    /\ bookmarks = <<>>
    /\ cursor = <<>>
    /\ deleting = {}

\* No component uses useBookmarkMutation.
MutationIdle ==
    /\ bookmark = <<>>
    /\ editingBookmark = <<>>
    /\ mutationState = <<>>
    /\ pending = {}
    /\ started = 0
    /\ ended = <<>>

\* No hook or component takes part.
UiIdle ==
    /\ KeyboardIdle
    /\ SelectionIdle
    /\ GridIdle
    /\ MutationIdle
    /\ bulkState = <<>>

\* Nothing outside the call takes part.
HostIdle ==
    /\ server = <<>>
    /\ UiIdle

\* No call of executeBulkOperation is made.
NoCall ==
    /\ bookmarkIds = <<>>
    /\ operation = "function"
    /\ options = [concurrency |-> <<>>, onProgress |-> FALSE]
    /\ queue = <<>>
    /\ succeeded = <<>>
    /\ failed = <<>>
    /\ inProgress = {}
    /\ workers = <<>>
    /\ pc = "idle"
    /\ result = <<>>
    /\ snapshots = <<>>
    /\ calls = <<>>
    /\ caught = <<>>
    /\ other = <<>>

Min(a, b) == IF a < b THEN a ELSE b
Range(s) == {s[i] : i \in DOMAIN s}
FailedIds(f) == [i \in DOMAIN f |-> f[i].bookmarkId]

\* Variant: the concurrency option is not read; the default is always used.
concurrencyIgnored == DefaultConcurrency

\* const { concurrency = 3, onProgress } = options
concurrency == IF options.concurrency = <<>> THEN DefaultConcurrency
               ELSE options.concurrency[1]

total == Len(bookmarkIds)

\* Variant: the string form of the error is stored, whatever the error is.
ErrorMessageString(error) == error.str

\* error instanceof Error ? error.message : String(error)
ErrorMessage(error) == IF error.isError THEN error.message ELSE error.str

\* The executor's mutable state as one value, threaded through a worker's run.
State == [queue |-> queue, succeeded |-> succeeded, failed |-> failed,
          inProgress |-> inProgress, snapshots |-> snapshots, calls |-> calls,
          caught |-> caught]

\* Variant: completed and inProgress are filled from each other's source.
updateProgressSwapped(st) ==
    IF options.onProgress
    THEN [st EXCEPT !.snapshots = Append(@,
            [total |-> total,
             completed |-> Cardinality(st.inProgress),
             failed |-> Len(st.failed),
             inProgress |-> Len(st.succeeded),
             errors |-> st.failed])]
    ELSE st

\* updateProgress(): when onProgress is given, call it with the counters.
updateProgress(st) ==
    IF options.onProgress
    THEN [st EXCEPT !.snapshots = Append(@,
            [total |-> total,
             completed |-> Len(st.succeeded),
             failed |-> Len(st.failed),
             inProgress |-> Cardinality(st.inProgress),
             errors |-> st.failed])]
    ELSE st

\* Variant: the newest failure is put in front of the earlier ones.
PushFailedFront(st, id, error) ==
    [st EXCEPT !.failed = <<[bookmarkId |-> id, error |-> ErrorMessage(error)]>> \o @,
               !.caught = Append(@, [bookmarkId |-> id, error |-> error])]

\* catch: failed.push({bookmarkId, error: message})
PushFailed(st, id, error) ==
    [st EXCEPT !.failed = Append(@, [bookmarkId |-> id, error |-> ErrorMessage(error)]),
               !.caught = Append(@, [bookmarkId |-> id, error |-> error])]

\* Variant: the id is pushed twice (once in try, once more in finally).
PushSucceededTwice(st, id) ==
    [st EXCEPT !.succeeded = Append(Append(@, id), id)]

\* try, after the await: succeeded.push(bookmarkId)
PushSucceeded(st, id) ==
    [st EXCEPT !.succeeded = Append(@, id)]

\* Variant: the finally block reports progress without inProgress.delete.
FinallyNoDelete(st, id) == updateProgress(st)

\* finally: inProgress.delete(bookmarkId); updateProgress()
Finally(st, id) ==
    updateProgress([st EXCEPT !.inProgress = @ \ {id}])

\* Claim step: inProgress.add(bookmarkId); updateProgress(); operation(bookmarkId)
\* (a missing operation is not invoked: the call expression throws).
Claim(st, id) ==
    [updateProgress([st EXCEPT !.inProgress = @ \cup {id}])
        EXCEPT !.calls = IF operation # "missing" THEN Append(@, id) ELSE @]

\* Variant: the queue drops its last element (pop) while the head is read.
ShiftPop(st) == [st EXCEPT !.queue = SubSeq(@, 1, Len(@) - 1)]

\* const bookmarkId = queue.shift()
Shift(st) == [st EXCEPT !.queue = Tail(@)]

\* Variant: the operation is called outside the try block, so a synchronous
\* throw ends the worker with nothing recorded for the id.
WorkerLoopNoCatch(st, thrown) ==
    IF Len(st.queue) = 0
    THEN [st |-> st, rest |-> thrown,
          w |-> [pc |-> "exitEmpty", bookmarkId |-> NoId, entry |-> 0]]
    ELSE LET bookmarkId == Head(st.queue)
             entry == total - Len(st.queue) + 1
             shifted == Shift(st)
         IN  IF bookmarkId = ""
             THEN [st |-> shifted, rest |-> thrown,
                   w |-> [pc |-> "exitBreak", bookmarkId |-> NoId, entry |-> 0]]
             ELSE LET claimed == Claim(shifted, bookmarkId)
                  IN  IF thrown # <<>>
                      THEN [st |-> claimed, rest |-> Tail(thrown),
                            w |-> [pc |-> "crashed", bookmarkId |-> NoId, entry |-> 0]]
                      ELSE [st |-> claimed, rest |-> thrown,
                            w |-> [pc |-> "await", bookmarkId |-> bookmarkId, entry |-> entry]]

\* A worker from the head of its while loop up to its next await or its exit.
\* thrown lists the errors that the operation calls of this run throw
\* synchronously, one per call, each handled by the catch and finally blocks
\* before the loop goes round again; the call after them returns a pending
\* promise, which the worker awaits.  (The operations of the bulk wrappers are
\* async functions: a call of one always returns a promise.)  The result is the state, the worker's
\* record (pc "await" with the id it awaits and the index of that entry in
\* bookmarkIds, or an exit) and the part of thrown that no call was made for.
RECURSIVE WorkerLoop(_, _)
WorkerLoop(st, thrown) ==
    IF Len(st.queue) = 0
    THEN [st |-> st, rest |-> thrown,
          w |-> [pc |-> "exitEmpty", bookmarkId |-> NoId, entry |-> 0]]
    ELSE LET bookmarkId == Head(st.queue)
             entry == total - Len(st.queue) + 1
             shifted == Shift(st)
         IN  IF bookmarkId = ""
             THEN [st |-> shifted, rest |-> thrown,
                   w |-> [pc |-> "exitBreak", bookmarkId |-> NoId, entry |-> 0]]
             ELSE LET claimed == Claim(shifted, bookmarkId)
                  IN  IF operation = "missing"
                      THEN WorkerLoop(Finally(PushFailed(claimed, bookmarkId, NotAFunction),
                                              bookmarkId), thrown)
                      ELSE IF thrown # <<>> /\ operation = "function"
                      THEN WorkerLoop(Finally(PushFailed(claimed, bookmarkId, Head(thrown)),
                                              bookmarkId), Tail(thrown))
                      ELSE [st |-> claimed, rest |-> thrown,
                            w |-> [pc |-> "await", bookmarkId |-> bookmarkId, entry |-> entry]]

\* The synchronous throws a run can meet: at most one per queued id.
Thrown == UNION {[1..n -> ErrorValues] : n \in 0..Len(queue)}

\* useBulkOperation's onProgress: setState((prev) => ({ ...prev, ...progress }))
onProgress(prev, progress) ==
    [isRunning |-> prev.isRunning,
     total |-> progress.total,
     completed |-> progress.completed,
     failed |-> progress.failed,
     inProgress |-> progress.inProgress,
     errors |-> progress.errors]

\* The hook state after the progress callbacks of one run of code: with the
\* hook mounted every call is made through it with its onProgress, and each
\* snapshot overwrites the same fields, so the last one emitted stands.
Deliver(state, old, new) ==
    IF state = <<>> \/ Len(new) = Len(old) THEN state
    ELSE <<onProgress(state[1], new[Len(new)])>>

Install(r) ==
    /\ r.rest = <<>>
    /\ bulkState' = Deliver(bulkState, snapshots, r.st.snapshots)
    /\ queue' = r.st.queue
    /\ succeeded' = r.st.succeeded
    /\ failed' = r.st.failed
    /\ inProgress' = r.st.inProgress
    /\ snapshots' = r.st.snapshots
    /\ calls' = r.st.calls
    /\ caught' = r.st.caught

Exited(w) == w.pc \in {"exitEmpty", "exitBreak"}

Init ==
    /\ bookmarkIds \in IdSeqs
    /\ operation \in OperationValues
    /\ options \in OptionValues
    /\ queue = bookmarkIds
    /\ succeeded = <<>>
    /\ failed = <<>>
    /\ inProgress = {}
    /\ workers = <<>>
    /\ pc = "spawn"
    /\ result = <<>>
    /\ snapshots = <<>>
    /\ calls = <<>>
    /\ caught = <<>>
    /\ other = <<>>
    /\ HostIdle

\* One iteration of: for (i = 0; i < Math.min(concurrency, queue.length); i++)
\* workers.push((async () => {...})()), the worker running up to its first await.
SpawnWorker ==
    /\ pc = "spawn"
    /\ Len(workers) < Min(concurrency, Len(queue))
    /\ \E thrown \in Thrown :
         \E r \in {WorkerLoop(State, thrown)} :
             /\ Install(r)
             /\ workers' = Append(workers, r.w)
    /\ UNCHANGED <<bookmarkIds, operation, options, pc, result, other, hostVars>>

\* Variant: a snapshot is emitted once the workers are started, whatever ids is.
AwaitAllWithSnapshot ==
    /\ pc = "spawn"
    /\ ~(Len(workers) < Min(concurrency, Len(queue)))
    /\ pc' = "join"
    /\ snapshots' = updateProgress(State).snapshots
    /\ UNCHANGED <<bookmarkIds, operation, options, queue, succeeded, failed,
                   inProgress, workers, result, calls, caught, other, bulkState, hostVars>>

\* The loop condition fails: await Promise.all(workers)
AwaitAll ==
    /\ pc = "spawn"
    /\ ~(Len(workers) < Min(concurrency, Len(queue)))
    /\ pc' = "join"
    /\ UNCHANGED <<bookmarkIds, operation, options, queue, succeeded, failed,
                   inProgress, workers, result, snapshots, calls, caught, other, bulkState, hostVars>>

\* The operation awaited by worker i resolves; the worker runs on.
OperationResolves(i) ==
    /\ pc = "join"
    /\ workers[i].pc = "await"
    /\ LET id == workers[i].bookmarkId
       IN  \E thrown \in Thrown :
             \E r \in {WorkerLoop(Finally(PushSucceeded(State, id), id), thrown)} :
                 /\ Install(r)
                 /\ workers' = [workers EXCEPT ![i] = r.w]
    /\ UNCHANGED <<bookmarkIds, operation, options, pc, result, other, hostVars>>

\* The operation awaited by worker i rejects with error; the worker runs on.
OperationRejects(i, error) ==
    /\ pc = "join"
    /\ workers[i].pc = "await"
    /\ LET id == workers[i].bookmarkId
       IN  \E thrown \in Thrown :
             \E r \in {WorkerLoop(Finally(PushFailed(State, id, error), id), thrown)} :
                 /\ Install(r)
                 /\ workers' = [workers EXCEPT ![i] = r.w]
    /\ UNCHANGED <<bookmarkIds, operation, options, pc, result, other, hostVars>>

\* Promise.all(workers) is fulfilled: return { succeeded, failed }
Resolve ==
    /\ pc = "join"
    /\ \A i \in 1..Len(workers) : Exited(workers[i])
    /\ pc' = "resolved"
    /\ result' = <<[succeeded |-> succeeded, failed |-> failed]>>
    /\ UNCHANGED <<bookmarkIds, operation, options, queue, succeeded, failed,
                   inProgress, workers, snapshots, calls, caught, other, bulkState, hostVars>>

Settle ==
    \E i \in 1..Len(workers) :
        \/ OperationResolves(i)
        \/ \E error \in ErrorValues : OperationRejects(i, error)

Next ==
    \/ SpawnWorker
    \/ AwaitAll
    \/ Settle
    \/ Resolve

Spec == Init /\ [][Next]_vars

\* The call of the worked example: five ids, concurrency 2.
ScenarioInit ==
    /\ bookmarkIds = <<"a", "b", "c", "d", "e">>
    /\ operation = "function"
    /\ options \in {[concurrency |-> <<2>>, onProgress |-> p] : p \in BOOLEAN}
    /\ queue = bookmarkIds
    /\ succeeded = <<>>
    /\ failed = <<>>
    /\ inProgress = {}
    /\ workers = <<>>
    /\ pc = "spawn"
    /\ result = <<>>
    /\ snapshots = <<>>
    /\ calls = <<>>
    /\ caught = <<>>
    /\ other = <<>>
    /\ HostIdle

\* The calls of Spec and the call of the worked example.
ScenarioSpec == (Init \/ ScenarioInit) /\ [][Next]_vars

\* ------------------------------------------------- two overlapping calls
\* Everything a call of executeBulkOperation holds is a parameter or a local
\* of that invocation.  With two calls in progress the variables above are
\* the invocation whose code runs next and other holds the invocation that
\* is suspended at an await (or not yet begun).
CallState == [bookmarkIds |-> bookmarkIds,
              operation |-> operation,
              options |-> options,
              queue |-> queue,
              succeeded |-> succeeded,
              failed |-> failed,
              inProgress |-> inProgress,
              workers |-> workers,
              pc |-> pc,
              result |-> result,
              snapshots |-> snapshots,
              calls |-> calls,
              caught |-> caught]

NewCall(ids, opts) ==
    [bookmarkIds |-> ids, operation |-> "function", options |-> opts,
     queue |-> ids, succeeded |-> <<>>, failed |-> <<>>, inProgress |-> {},
     workers |-> <<>>, pc |-> "spawn", result |-> <<>>, snapshots |-> <<>>,
     calls |-> <<>>, caught |-> <<>>]

\* Variant: inProgress is one module-level Set, shared by all invocations.
SwitchCallSharedInProgress ==
    /\ other # <<>>
    /\ (pc # "spawn" \/ workers = <<>>)
    /\ other' = <<CallState>>
    /\ bookmarkIds' = other[1].bookmarkIds
    /\ operation' = other[1].operation
    /\ options' = other[1].options
    /\ queue' = other[1].queue
    /\ succeeded' = other[1].succeeded
    /\ failed' = other[1].failed
    /\ inProgress' = inProgress
    /\ workers' = other[1].workers
    /\ pc' = other[1].pc
    /\ result' = other[1].result
    /\ snapshots' = other[1].snapshots
    /\ calls' = other[1].calls
    /\ caught' = other[1].caught
    /\ UNCHANGED <<bulkState, hostVars>>

\* The event loop turns to the other invocation: its continuation (or its
\* entry) runs next.  A call's synchronous prefix, the spawn loop, is never
\* interrupted: the turn is taken only at an await, at the end of the call or
\* before the call has begun.
SwitchCall ==
    /\ other # <<>>
    /\ (pc # "spawn" \/ workers = <<>>)
    /\ other' = <<CallState>>
    /\ bookmarkIds' = other[1].bookmarkIds
    /\ operation' = other[1].operation
    /\ options' = other[1].options
    /\ queue' = other[1].queue
    /\ succeeded' = other[1].succeeded
    /\ failed' = other[1].failed
    /\ inProgress' = other[1].inProgress
    /\ workers' = other[1].workers
    /\ pc' = other[1].pc
    /\ result' = other[1].result
    /\ snapshots' = other[1].snapshots
    /\ calls' = other[1].calls
    /\ caught' = other[1].caught
    /\ UNCHANGED <<bulkState, hostVars>>

\* Two calls with different id sets, both with a progress callback: one over
\* any ids drawn from FirstIds, one over the ids c, d.
FirstIds == {"a", "b"}
SecondCallIds == <<"c", "d">>
TwoCallOptions == {[concurrency |-> <<k>>, onProgress |-> TRUE] : k \in 1..2}
SecondCallOptions == [concurrency |-> <<1>>, onProgress |-> TRUE]

TwoCallInit ==
    /\ \E ids1 \in UNION {[1..n -> FirstIds] : n \in 1..MaxLenEach},
          opts1 \in TwoCallOptions :
          /\ bookmarkIds = ids1
          /\ options = opts1
          /\ queue = ids1
    /\ other = <<NewCall(SecondCallIds, SecondCallOptions)>>
    /\ operation = "function"
    /\ succeeded = <<>>
    /\ failed = <<>>
    /\ inProgress = {}
    /\ workers = <<>>
    /\ pc = "spawn"
    /\ result = <<>>
    /\ snapshots = <<>>
    /\ calls = <<>>
    /\ caught = <<>>
    /\ HostIdle

TwoCallNext ==
    \/ Next
    \/ SwitchCall

TwoCallSpec == TwoCallInit /\ [][TwoCallNext]_vars

\* Synchronous code runs to its next await, every operation call eventually
\* settles, and the event loop runs the continuation of a fulfilled
\* Promise.all.
FairSpec ==
    /\ Spec
    /\ WF_vars(SpawnWorker)
    /\ WF_vars(AwaitAll)
    /\ WF_vars(Settle)
    /\ WF_vars(Resolve)

\* ------------------------------------------------------ operation wrappers
\* bulkUpdateBookmarks ... bulkRemoveFromList: each calls executeBulkOperation
\* with the ids and options it was given and an operation of its own, and
\* returns what that call returns.
Wrappers == {"bulkUpdateBookmarks", "bulkDeleteBookmarks", "bulkAttachTags",
             "bulkDetachTags", "bulkAddToList", "bulkRemoveFromList"}

\* What a fetch ends with: a network error (fetch rejects), or a response
\* with ok (status 2xx or not), statusText, and a body that parses as JSON or
\* does not; error is the error field of the parsed body, "" when it has none.
Responses ==
    {[network |-> TRUE, ok |-> FALSE, statusText |-> "", json |-> FALSE, error |-> ""]}
    \cup {[network |-> FALSE, ok |-> TRUE, statusText |-> "OK", json |-> j, error |-> ""] :
             j \in BOOLEAN}
    \cup {[network |-> FALSE, ok |-> FALSE, statusText |-> "Not Found", json |-> TRUE,
           error |-> e] : e \in {"", "Failed to delete bookmark: Not Found"}}
    \cup {[network |-> FALSE, ok |-> FALSE, statusText |-> "", json |-> TRUE, error |-> ""],
          [network |-> FALSE, ok |-> FALSE, statusText |-> "Bad Gateway", json |-> FALSE,
           error |-> ""]}

\* The errors of the runtime and new Error(message).
FailedToFetch == [isError |-> TRUE, message |-> "Failed to fetch",
                  str |-> "TypeError: Failed to fetch"]
JsonSyntaxError == [isError |-> TRUE, message |-> "Unexpected token < in JSON at position 0",
                    str |-> "SyntaxError: Unexpected token < in JSON at position 0"]
NewError(message) == [isError |-> TRUE, message |-> message,
                      str |-> IF message = "" THEN "Error" ELSE "Error: " \o message]

\* The operation a wrapper passes on, run on the response its fetch gets:
\* <<>> when its promise is fulfilled, <<error>> when it rejects with error.
\*   if (!response.ok) { const error = await response.json();
\*                       throw new Error(error.error || response.statusText) }
\* and, in bulkUpdateBookmarks only, return response.json().
WrapperOperation(wrapper, response) ==
    IF response.network THEN <<FailedToFetch>>
    ELSE IF ~response.ok
    THEN IF ~response.json THEN <<JsonSyntaxError>>
         ELSE <<NewError(IF response.error # "" THEN response.error
                         ELSE response.statusText)>>
    ELSE IF wrapper = "bulkUpdateBookmarks" /\ ~response.json
    THEN <<JsonSyntaxError>>
    ELSE <<>>

\* The fetch of the operation awaited by worker i ends with response; the
\* operation settles accordingly and the worker runs on.
ResponseArrives(i, response) ==
    /\ pc = "join"
    /\ operation \in Wrappers
    /\ workers[i].pc = "await"
    /\ LET id == workers[i].bookmarkId
           outcome == WrapperOperation(operation, response)
           settled == IF outcome = <<>> THEN PushSucceeded(State, id)
                      ELSE PushFailed(State, id, outcome[1])
       IN  \E r \in {WorkerLoop(Finally(settled, id), <<>>)} :
               /\ Install(r)
               /\ workers' = [workers EXCEPT ![i] = r.w]
    /\ UNCHANGED <<bookmarkIds, operation, options, pc, result, other, hostVars>>

\* The back end answers every request about an id in the same way.
ServerResponds ==
    \E i \in 1..Len(workers) :
        /\ workers[i].pc = "await"
        /\ ResponseArrives(i, server[workers[i].bookmarkId])

WrapperIds == {"a", "b"}
WrapperOptions == {[concurrency |-> c, onProgress |-> p] :
                     c \in {<<>>, <<1>>}, p \in BOOLEAN}

\* A call of one of the wrappers.
WrapperInit ==
    /\ bookmarkIds \in UNION {[1..n -> WrapperIds] : n \in 0..MaxLenEach}
    /\ operation \in Wrappers
    /\ options \in WrapperOptions
    /\ server \in [WrapperIds -> Responses]
    /\ UiIdle
    /\ queue = bookmarkIds
    /\ succeeded = <<>>
    /\ failed = <<>>
    /\ inProgress = {}
    /\ workers = <<>>
    /\ pc = "spawn"
    /\ result = <<>>
    /\ snapshots = <<>>
    /\ calls = <<>>
    /\ caught = <<>>
    /\ other = <<>>

WrapperNext ==
    \/ SpawnWorker
    \/ AwaitAll
    \/ ServerResponds
    \/ Resolve

WrapperSpec == WrapperInit /\ [][WrapperNext]_vars

\* -------------------------------------------------- useKeyboardNavigation
\* src/unnamed/part_002.  A keydown event: its key, the modifier flags that
\* the handler branches read and the kind of element it is aimed at.
Keys == {"/", "Escape", "e", "f", "a", "x", "Delete", "Backspace", "t", "l",
         "0", "1", "9", "?", "q"}
Targets == {"INPUT", "TEXTAREA", "contentEditable", "BODY"}
KeyEvents == [key : Keys, metaKey : BOOLEAN, ctrlKey : BOOLEAN, target : Targets]

AllHandlers == {"onEdit", "onFavorite", "onArchive", "onDelete", "onToggleSelection",
                "onSelectAll", "onAddTags", "onAddToList", "onQuickList"}

\* The handlers argument: undefined (<<>>), or an object with some handlers.
HandlerValues == {<<>>, <<AllHandlers>>, <<AllHandlers \ {"onArchive"}>>,
                  <<AllHandlers \ {"onSelectAll"}>>, <<{"onEdit"}>>, <<{}>>}

\* parseInt(e.key, 10): <<n>>, or <<>> for NaN.
ParseInt(key) ==
    IF key = "0" THEN <<0>> ELSE IF key = "1" THEN <<1>> ELSE IF key = "9" THEN <<9>>
    ELSE <<>>

\* One invocation of a handler; arg is the argument of onQuickList, else -1.
Invocation(name, arg) == [handler |-> name, arg |-> arg]

\* if (cond && handlers.name) handlers.name()
When(cond, given, name) ==
    IF cond /\ name \in given THEN <<Invocation(name, -1)>> ELSE <<>>

\* handleKeyDown(e): the handler invocations it makes, in the order of its
\* if statements.  (Focusing the search input, blurring and the help text
\* invoke no handler.)
handleKeyDown(e, hs) ==
    LET isInput == e.target \in {"INPUT", "TEXTAREA", "contentEditable"}
    IN  IF isInput \/ hs = <<>> THEN <<>>
        ELSE LET given == hs[1]
                 num == ParseInt(e.key)
             IN  When(e.key = "e", given, "onEdit")
                 \o When(e.key = "f", given, "onFavorite")
                 \o When(e.key = "a", given, "onArchive")
                 \o When(e.key = "x", given, "onToggleSelection")
                 \o When(e.key = "a" /\ (e.metaKey \/ e.ctrlKey), given, "onSelectAll")
                 \o When(e.key \in {"Delete", "Backspace"} /\ ~e.metaKey /\ ~e.ctrlKey,
                         given, "onDelete")
                 \o When(e.key = "t", given, "onAddTags")
                 \o When(e.key = "l", given, "onAddToList")
                 \o (IF "onQuickList" \in given /\ num # <<>> /\ num[1] >= 1 /\ num[1] <= 9
                     THEN <<Invocation("onQuickList", num[1] - 1)>> ELSE <<>>)

\* The component using the hook is mounted with some handlers.
KeyboardInit ==
    /\ NoCall
    /\ server = <<>>
    /\ MutationIdle
    /\ handlers \in HandlerValues
    /\ keyEvent = <<>>
    /\ invoked = <<>>
    /\ SelectionIdle
    /\ GridIdle
    /\ bulkState = <<>>

\* A keydown event reaches the document listener.
KeyDown ==
    \E e \in KeyEvents :
        /\ keyEvent' = <<e>>
        /\ invoked' = handleKeyDown(e, handlers)
        /\ UNCHANGED <<callVars, other, bulkState, mutationVars, server, handlers, selectionVars, gridVars>>

KeyboardNext == KeyDown

KeyboardSpec == KeyboardInit /\ [][KeyboardNext]_vars

\* --------------------------------------------------- useBookmarkSelection
\* src/src/hooks/useBookmarkSelection.ts.  A Set keeps its members in
\* insertion order, so selectedIds is a sequence without repetition.
RECURSIVE NewSet(_)
NewSet(array) ==
    IF array = <<>> THEN <<>>
    ELSE LET front == NewSet(SubSeq(array, 1, Len(array) - 1))
             last == array[Len(array)]
         IN  IF last \in Range(front) THEN front ELSE Append(front, last)

SetDelete(set, x) == SelectSeq(set, LAMBDA y : y # x)
SetAdd(set, x) == IF x \in Range(set) THEN set ELSE Append(set, x)

\* Variant: leaving selection mode keeps the selection.
toggleSelectionModeKeeps(mode, selected) ==
    [isSelectionMode |-> ~mode, selectedIds |-> selected]

\* toggleSelectionMode, as created by the render that saw isSelectionMode =
\* mode: setIsSelectionMode((prev) => !prev); if (isSelectionMode)
\* setSelectedIds(new Set()).  The callback is created anew whenever
\* isSelectionMode changes and its one caller is the click handler of the
\* toggle button, which React runs from the latest render.
toggleSelectionMode(mode, selected) ==
    [isSelectionMode |-> ~mode,
     selectedIds |-> IF mode THEN <<>> ELSE selected]

\* toggleSelection(bookmarkId), as a function of the previous Set.
toggleSelection(prev, bookmarkId) ==
    IF bookmarkId \in Range(prev) THEN SetDelete(prev, bookmarkId)
    ELSE SetAdd(prev, bookmarkId)

\* selectAll(bookmarkIds): setSelectedIds(new Set(bookmarkIds))
selectAll(array) == NewSet(array)

\* clearSelection(): setSelectedIds(new Set())
clearSelection == <<>>

SelectionIds == {"a", "b", "c", "d"}
SelectionArrays == UNION {[1..n -> SelectionIds] : n \in 0..Cardinality(SelectionIds)}

\* A component has mounted the hook.
SelectionInit ==
    /\ NoCall
    /\ server = <<>>
    /\ MutationIdle
    /\ KeyboardIdle
    /\ GridIdle
    /\ bulkState = <<>>
    /\ SelectionIdle

ToggleSelectionMode ==
    /\ LET next == toggleSelectionMode(isSelectionMode, selectedIds)
       IN  /\ isSelectionMode' = next.isSelectionMode
           /\ selectedIds' = next.selectedIds
    /\ lastToggle' = <<[from |-> isSelectionMode, selected |-> selectedIds # <<>>]>>
    /\ UNCHANGED <<callVars, other, bulkState, mutationVars, server, keyVars, gridVars>>

ToggleSelection ==
    \E bookmarkId \in SelectionIds :
        /\ selectedIds' = toggleSelection(selectedIds, bookmarkId)
        /\ UNCHANGED <<callVars, other, bulkState, mutationVars, server, keyVars, gridVars,
                       isSelectionMode, lastToggle>>

SelectAll ==
    \E array \in SelectionArrays :
        /\ selectedIds' = selectAll(array)
        /\ UNCHANGED <<callVars, other, bulkState, mutationVars, server, keyVars, gridVars,
                       isSelectionMode, lastToggle>>

ClearSelection ==
    /\ selectedIds' = clearSelection
    /\ UNCHANGED <<callVars, other, bulkState, mutationVars, server, keyVars, gridVars,
                   isSelectionMode, lastToggle>>

SelectionNext ==
    \/ ToggleSelectionMode
    \/ ToggleSelection
    \/ SelectAll
    \/ ClearSelection

SelectionSpec == SelectionInit /\ [][SelectionNext]_vars

\* -------------------------------------------------------- useBulkOperation
\* src/unnamed/part_003.  The state the hook starts with and goes back to.
BulkIdleState ==
    [isRunning |-> FALSE, total |-> 0, completed |-> 0, failed |-> 0,
     inProgress |-> 0, errors |-> <<>>]

\* What every method of the hook sets before it calls its wrapper.
BulkRunningState(ids) ==
    [isRunning |-> TRUE, total |-> Len(ids), completed |-> 0, failed |-> 0,
     inProgress |-> 0, errors |-> <<>>]

\* updateBookmarks, deleteBookmarks, ... up to the await: setState({isRunning:
\* true, ...}), then the wrapper is called with { onProgress } and calls
\* executeBulkOperation, which is entered with the default concurrency.
StartCall(wrapper, ids) ==
    /\ bulkState' = <<BulkRunningState(ids)>>
    /\ bookmarkIds' = ids
    /\ operation' = wrapper
    /\ options' = [concurrency |-> <<>>, onProgress |-> TRUE]
    /\ queue' = ids
    /\ succeeded' = <<>>
    /\ failed' = <<>>
    /\ inProgress' = {}
    /\ workers' = <<>>
    /\ pc' = "spawn"
    /\ result' = <<>>
    /\ snapshots' = <<>>
    /\ calls' = <<>>
    /\ caught' = <<>>

\* The answers of the back end that the hook's callers meet.
HookResponses ==
    {[network |-> FALSE, ok |-> TRUE, statusText |-> "OK", json |-> TRUE, error |-> ""],
     [network |-> FALSE, ok |-> FALSE, statusText |-> "Not Found", json |-> TRUE,
      error |-> "Failed to delete bookmark: Not Found"]}

\* The fetch of an awaited operation ends.
FetchEnds ==
    \E i \in 1..Len(workers), response \in HookResponses :
        /\ workers[i].pc = "await"
        /\ ResponseArrives(i, response)

HookWrappers == {"bulkUpdateBookmarks", "bulkDeleteBookmarks"}
HookIds == UNION {[1..n -> {"a", "b"}] : n \in 1..MaxLenEach}

\* A component has mounted the hook.
HookInit ==
    /\ NoCall
    /\ server = <<>>
    /\ MutationIdle
    /\ KeyboardIdle
    /\ SelectionIdle
    /\ GridIdle
    /\ bulkState = <<BulkIdleState>>

\* A method of the hook is called: when no call is in progress, or as a
\* second call while the first one waits for its operations.
HookStart ==
    \E wrapper \in HookWrappers, ids \in HookIds :
        /\ bulkState # <<>>
        /\ \/ /\ pc \in {"idle", "returned"}
              /\ other' = other
           \/ /\ pc = "join"
              /\ other = <<>>
              /\ other' = <<CallState>>
        /\ StartCall(wrapper, ids)
        /\ UNCHANGED hostVars

\* The method resumes after its await: setState((prev) => ({ ...prev,
\* isRunning: false })); return result.
HookReturns ==
    /\ bulkState # <<>>
    /\ pc = "resolved"
    /\ pc' = "returned"
    /\ bulkState' = <<[bulkState[1] EXCEPT !.isRunning = FALSE]>>
    /\ UNCHANGED <<bookmarkIds, operation, options, queue, succeeded, failed,
                   inProgress, workers, result, snapshots, calls, caught, other,
                   hostVars>>

\* reset(): setState({isRunning: false, total: 0, ...})
Reset ==
    /\ bulkState # <<>>
    /\ pc # "spawn"
    /\ pc # "resolved"
    /\ bulkState' = <<BulkIdleState>>
    /\ UNCHANGED <<callVars, other, hostVars>>

HookNext ==
    \/ HookStart
    \/ SpawnWorker
    \/ AwaitAll
    \/ FetchEnds
    \/ Resolve
    \/ SwitchCall
    \/ HookReturns
    \/ Reset

HookSpec == HookInit /\ [][HookNext]_vars

\* --------------------------------------------------- PaginatedBookmarkGrid
\* src/unnamed/part_015.  The grid holds the bookmarks of the list (or query)
\* its page shows, keeps the selection of useBookmarkSelection and runs bulk
\* actions through useBulkOperation.  A bookmark is its id.
\* What the back end serves: for each list its pages of bookmarks (a bookmark
\* can be in several lists).
Lists == {"inbox", "work"}
Pages == [l \in Lists |-> IF l = "inbox" THEN << <<"a", "b">> >>
                          ELSE << <<"a">>, <<"b">> >>]
initialBookmarks(l) == Pages[l][1]
initialCursor(l) == IF Len(Pages[l]) > 1 THEN <<2>> ELSE <<>>

\* Bound: delete requests of single cards in flight at once.
MaxDeleting == 1

\* The event loop is between two runs of code: a user event can be handled.
Quiet == pc \in {"idle", "join", "returned"}

\* Variant: every requested bookmark is removed, deleted or not.
RemoveSettled(prev, res) ==
    SelectSeq(prev, LAMBDA b : b \notin Range(res.succeeded)
                                  /\ b \notin Range(FailedIds(res.failed)))

\* handleBulkDelete: prev.filter((b) => !result.succeeded.includes(b.id))
RemoveSucceeded(prev, res) ==
    SelectSeq(prev, LAMBDA b : b \notin Range(res.succeeded))

\* The page renders the grid for a list.
GridInit ==
    /\ NoCall
    /\ server = <<>>
    /\ MutationIdle
    /\ KeyboardIdle
    /\ SelectionIdle
    /\ bulkState = <<BulkIdleState>>
    /\ listId \in Lists
    /\ bookmarks = initialBookmarks(listId)
    /\ cursor = initialCursor(listId)
    /\ deleting = {}

\* Click on the selection mode button of the toolbar (rendered while the
\* grid holds bookmarks).
ClickSelectionMode ==
    /\ Quiet
    /\ bookmarks # <<>>
    /\ ToggleSelectionMode

\* Click on a card in selection mode: selection.toggleSelection(bookmark.id)
ClickCard ==
    \E id \in Range(bookmarks) :
        /\ Quiet
        /\ isSelectionMode
        /\ selectedIds' = toggleSelection(selectedIds, id)
        /\ UNCHANGED <<callVars, other, bulkState, mutationVars, server, keyVars, gridVars,
                       isSelectionMode, lastToggle>>

\* handleSelectAll: selection.selectAll(the ids of the visible bookmarks)
handleSelectAll ==
    /\ Quiet
    /\ isSelectionMode
    /\ bookmarks # <<>>
    /\ selectedIds' = selectAll(bookmarks)
    /\ UNCHANGED <<callVars, other, bulkState, mutationVars, server, keyVars, gridVars,
                   isSelectionMode, lastToggle>>

\* Click on "Clear selection" or on the toolbar's cancel.
ClickClear ==
    /\ Quiet
    /\ isSelectionMode
    /\ selectedIds # <<>>
    /\ bookmarks # <<>>
    /\ ClearSelection

\* The quick action of a card (shown outside selection mode) starts the
\* delete request of its bookmark; the onDelete it will call is the
\* handleBookmarkDelete of this render, whose selection.isSelected reads the
\* Set of this render.
StartDelete ==
    \E id \in Range(bookmarks) :
        /\ Quiet
        /\ ~isSelectionMode
        /\ Cardinality(deleting) < MaxDeleting
        /\ \A d \in deleting : d.id # id
        /\ deleting' = deleting \cup {[id |-> id, isSelected |-> id \in Range(selectedIds)]}
        /\ UNCHANGED <<callVars, other, bulkState, mutationVars, server, keyVars, selectionVars,
                       listId, bookmarks, cursor>>

\* The delete request succeeded: handleBookmarkDelete(id) removes the bookmark
\* and, if (selection.isSelected(id)), calls selection.toggleSelection(id).
handleBookmarkDelete ==
    \E d \in deleting :
        /\ Quiet
        /\ deleting' = deleting \ {d}
        /\ bookmarks' = SelectSeq(bookmarks, LAMBDA b : b # d.id)
        /\ selectedIds' = IF d.isSelected THEN toggleSelection(selectedIds, d.id)
                          ELSE selectedIds
        /\ UNCHANGED <<callVars, other, bulkState, mutationVars, server, keyVars, listId, cursor,
                       isSelectionMode, lastToggle>>

\* The delete request failed: the grid is not told.
DeleteFails ==
    \E d \in deleting :
        /\ Quiet
        /\ deleting' = deleting \ {d}
        /\ UNCHANGED <<callVars, other, bulkState, mutationVars, server, keyVars, selectionVars,
                       listId, bookmarks, cursor>>

\* handleBulkDelete and handleBulkFavorite up to their await, started from
\* the bulk toolbar (rendered in selection mode with ids selected): the
\* method of useBulkOperation is called with selection.selectedIds.
\* (handleBulkArchive, handleBulkAddTags and handleBulkAddToList have the
\* shape of handleBulkFavorite.)
StartBulk ==
    \E wrapper \in HookWrappers :
        /\ pc \in {"idle", "returned"}
        /\ bookmarks # <<>>
        /\ isSelectionMode
        /\ selectedIds # <<>>
        /\ StartCall(wrapper, selectedIds)
        /\ UNCHANGED <<other, hostVars>>

\* The method of useBulkOperation resumes (isRunning: false) and returns the
\* result to the handler, which resumes: if any succeeded, handleBulkDelete
\* removes them from bookmarks, and both handlers clear the selection.
BulkReturns ==
    /\ pc = "resolved"
    /\ pc' = "returned"
    /\ bulkState' = <<[bulkState[1] EXCEPT !.isRunning = FALSE]>>
    /\ IF Len(result[1].succeeded) > 0
       THEN /\ bookmarks' = IF operation = "bulkDeleteBookmarks"
                            THEN RemoveSucceeded(bookmarks, result[1])
                            ELSE bookmarks
            /\ selectedIds' = clearSelection
       ELSE UNCHANGED <<bookmarks, selectedIds>>
    /\ UNCHANGED <<bookmarkIds, operation, options, queue, succeeded, failed,
                   inProgress, workers, result, snapshots, calls, caught, other,
                   mutationVars, server, keyVars, isSelectionMode, lastToggle,
                   listId, cursor,
                   deleting>>

\* The page is rendered for another list: the reset effect runs
\* (setBookmarks(initialBookmarks); setCursor(initialCursor); the filters).
Navigate ==
    \E l \in Lists \ {listId} :
        /\ Quiet
        /\ listId' = l
        /\ bookmarks' = initialBookmarks(l)
        /\ cursor' = initialCursor(l)
        /\ UNCHANGED <<callVars, other, bulkState, mutationVars, server, keyVars, selectionVars,
                       deleting>>

\* handleLoadMore(newBookmarks, nextCursor), with the page the button fetched.
handleLoadMore ==
    /\ Quiet
    /\ bookmarks # <<>>
    /\ cursor # <<>>
    /\ bookmarks' = bookmarks \o Pages[listId][cursor[1]]
    /\ cursor' = IF cursor[1] < Len(Pages[listId]) THEN <<cursor[1] + 1>> ELSE <<>>
    /\ UNCHANGED <<callVars, other, bulkState, mutationVars, server, keyVars, selectionVars,
                   listId, deleting>>

GridNext ==
    \/ ClickSelectionMode
    \/ ClickCard
    \/ handleSelectAll
    \/ ClickClear
    \/ StartDelete
    \/ handleBookmarkDelete
    \/ DeleteFails
    \/ StartBulk
    \/ SpawnWorker
    \/ AwaitAll
    \/ FetchEnds
    \/ Resolve
    \/ BulkReturns
    \/ Navigate
    \/ handleLoadMore

GridSpec == GridInit /\ [][GridNext]_vars

\* ----------------------------------------------------- useBookmarkMutation
\* src/src/hooks/useBookmarkMutation.ts, with the components that call it:
\* QuickActions (src/unnamed/part_013), whose bookmark prop is the bookmark
\* the grid holds, and BookmarkEditModal, whose bookmark prop is the grid's
\* editingBookmark, the bookmark as it was when the modal was opened.  The
\* onUpdate both pass replaces the bookmark the grid holds
\* (handleBookmarkUpdate); the modal's also closes the modal.
\* A bookmark is the record of the fields the mutations write.
\* Bound: calls of executeWithOptimism awaiting the server at once.
MaxPending == 2
\* Bound: calls of executeWithOptimism in a behaviour.
MaxMutations == 3
\* Bound: tags of a bookmark to which the modal still attaches one.
MaxTags == 2
Titles == {"t0", "t1"}
Notes == {"", "n1"}
TagNames == {"x"}
ServerTag(name) == [id |-> "1", name |-> name]
Bookmarks ==
    [title : {"t0"}, note : {""}, favourited : BOOLEAN, archived : {FALSE},
     tags : {<<ServerTag("x")>>}]

Mutations ==
    {"updateTitle", "updateNote", "toggleFavorite", "toggleArchive",
     "attachTags", "detachTags"}

\* The errors updateBookmark, addTagsToBookmark and removeTagsFromBookmark
\* throw.
MutationErrors == {NewError("Bookmark not found"), FailedToFetch}

\* The first argument each mutation gives to executeWithOptimism (arg: the
\* arguments of the mutation, as a sequence).
optimisticUpdate(name, arg, b) ==
    CASE name = "updateTitle" -> [b EXCEPT !.title = arg[1]]
      [] name = "updateNote" -> [b EXCEPT !.note = arg[1]]
      [] name = "toggleFavorite" -> [b EXCEPT !.favourited = ~b.favourited]
      [] name = "toggleArchive" -> [b EXCEPT !.archived = ~b.archived]
      [] name = "attachTags" ->
            [b EXCEPT !.tags = b.tags \o [i \in DOMAIN arg |->
                                             [id |-> "temp-" \o arg[i], name |-> arg[i]]]]
      [] name = "detachTags" ->
            [b EXCEPT !.tags = SelectSeq(b.tags, LAMBDA t : t.name \notin Range(arg))]

\* The catch block: onUpdate?.(bookmark), the bookmark of the closure.
Rollback(m) == m.bookmark

\* executeWithOptimism up to its await, run by each mutation of ms in turn
\* within one handler, all with the bookmark of the same render: the state
\* <<held, waiting>> after them.  Each call is kept with the bookmark of its
\* closure and, as history, the bookmark its parent held when it began.
RECURSIVE executeWithOptimism(_, _, _, _)
executeWithOptimism(ms, closure, held, waiting) ==
    IF ms = <<>> THEN [bookmark |-> held, pending |-> waiting]
    ELSE executeWithOptimism(
            Tail(ms), closure,
            optimisticUpdate(Head(ms).name, Head(ms).arg, closure),
            waiting \cup {[name |-> Head(ms).name, arg |-> Head(ms).arg,
                           bookmark |-> closure, before |-> held]})

\* A handler calls the mutations ms of the hook rendered with closure.
Mutate(ms, closure) ==
    LET after == executeWithOptimism(ms, closure, bookmark, pending)
    IN  /\ Cardinality(after.pending) = Cardinality(pending) + Len(ms)
        /\ Cardinality(after.pending) <= MaxPending
        /\ started + Len(ms) <= MaxMutations
        /\ started' = started + Len(ms)
        /\ bookmark' = after.bookmark
        /\ pending' = after.pending
        /\ mutationState' = [isLoading |-> TRUE, error |-> <<>>]
        /\ UNCHANGED ended

\* A grid shows a card of the bookmark.
MutationInit ==
    /\ NoCall
    /\ server = <<>>
    /\ KeyboardIdle
    /\ SelectionIdle
    /\ GridIdle
    /\ bulkState = <<>>
    /\ bookmark \in Bookmarks
    /\ editingBookmark = <<>>
    /\ mutationState = [isLoading |-> FALSE, error |-> <<>>]
    /\ pending = {}
    /\ started = 0
    /\ ended = <<>>

\* QuickActions: handleToggleFavorite and handleToggleArchive up to their
\* await.
QuickToggle ==
    \E name \in {"toggleFavorite", "toggleArchive"} :
        /\ editingBookmark = <<>>
        /\ Mutate(<<[name |-> name, arg |-> <<>>]>>, bookmark)
        /\ UNCHANGED <<callVars, other, bulkState, server, keyVars, selectionVars,
                       gridVars, editingBookmark>>

\* onEdit: setEditingBookmark(bookmark)
OpenEdit ==
    /\ editingBookmark = <<>>
    /\ editingBookmark' = <<bookmark>>
    /\ UNCHANGED <<callVars, other, bulkState, server, keyVars, selectionVars,
                   gridVars, bookmark, mutationState, pending, started, ended>>

\* The mutations handleSave starts for the title and note typed.
Updates(title, note, b) ==
    (IF title # b.title /\ title # "" THEN <<[name |-> "updateTitle", arg |-> <<title>>]>>
     ELSE <<>>)
    \o (IF note # b.note /\ note # "" THEN <<[name |-> "updateNote", arg |-> <<note>>]>>
        ELSE <<>>)

\* BookmarkEditModal.handleSave up to its await; the modal is closed by
\* onClose when nothing is to be saved and by onUpdate otherwise.
handleSave ==
    \E title \in Titles, note \in Notes :
        /\ editingBookmark # <<>>
        /\ LET ms == Updates(title, note, editingBookmark[1])
           IN  IF ms = <<>> THEN UNCHANGED <<bookmark, mutationState, pending, started, ended>>
               ELSE Mutate(ms, editingBookmark[1])
        /\ editingBookmark' = <<>>
        /\ UNCHANGED <<callVars, other, bulkState, server, keyVars, selectionVars,
                       gridVars>>

\* BookmarkEditModal: handleAddTags and handleRemoveTag up to their await.
handleTags ==
    \E name \in {"attachTags", "detachTags"}, tag \in TagNames :
        /\ editingBookmark # <<>>
        /\ name = "attachTags" => Len(editingBookmark[1].tags) < MaxTags
        /\ name = "detachTags" => \E i \in DOMAIN editingBookmark[1].tags :
                                     editingBookmark[1].tags[i].name = tag
        /\ Mutate(<<[name |-> name, arg |-> <<tag>>]>>, editingBookmark[1])
        /\ editingBookmark' = <<>>
        /\ UNCHANGED <<callVars, other, bulkState, server, keyVars, selectionVars,
                       gridVars>>

\* serverMutation() of a waiting call resolves: executeWithOptimism resumes
\* in its try block and returns the result.
MutationSucceeds ==
    \E m \in pending :
        /\ pending' = pending \ {m}
        /\ mutationState' = [isLoading |-> FALSE, error |-> <<>>]
        /\ ended' = <<[ok |-> TRUE, returns |-> "result", rollback |-> FALSE,
                       message |-> <<>>]>>
        /\ UNCHANGED <<callVars, other, bulkState, server, keyVars, selectionVars,
                       gridVars, bookmark, editingBookmark, started>>

\* serverMutation() of a waiting call rejects: the catch block runs and
\* returns null.
MutationFails ==
    \E m \in pending, error \in MutationErrors :
        /\ pending' = pending \ {m}
        /\ bookmark' = Rollback(m)
        /\ mutationState' = [isLoading |-> FALSE, error |-> <<ErrorMessage(error)>>]
        /\ ended' = <<[ok |-> FALSE, returns |-> "null", rollback |-> TRUE,
                       message |-> <<error.message>>]>>
        /\ UNCHANGED <<callVars, other, bulkState, server, keyVars, selectionVars,
                       gridVars, editingBookmark, started>>

MutationNext ==
    \/ QuickToggle
    \/ OpenEdit
    \/ handleSave
    \/ handleTags
    \/ MutationSucceeds
    \/ MutationFails

MutationSpec == MutationInit /\ [][MutationNext]_vars

\* ------------------------------------------------------------ claim helpers
SeqToBag(s) == [x \in Range(s) |-> Cardinality({i \in DOMAIN s : s[i] = x})]
InFlight == Cardinality({i \in DOMAIN workers : workers[i].pc = "await"})
Resolved == pc = "resolved"
\* The concurrency the caller asked for, read from the argument itself.
Requested == IF options.concurrency = <<>> THEN 3 ELSE options.concurrency[1]
NoDuplicates(s) == \A i, j \in DOMAIN s : i # j => s[i] # s[j]

\* C1: when the call has resolved, the operation has been invoked exactly
\* once for each entry of ids (as a multiset: duplicates counted separately),
\* whatever the concurrency value.
C1_InvokedOncePerEntry ==
    Resolved => SeqToBag(calls) = SeqToBag(bookmarkIds)

\* C2: when the call resolves with a concurrency of at least 1, the ids of
\* succeeded together with the ids of failed are exactly the input ids, each
\* entry once; all-success gives failed empty and N succeeded, all-failure
\* gives succeeded empty and N failed.
C2_ResultPartitionsInput ==
    (Resolved /\ Requested >= 1) =>
        LET r == result[1]
        IN  /\ SeqToBag(r.succeeded \o FailedIds(r.failed)) = SeqToBag(bookmarkIds)
            /\ (r.failed = <<>> => Len(r.succeeded) = total)
            /\ (r.succeeded = <<>> => Len(r.failed) = total)

C4_NoIdInTwoWorkers ==
    \A i, j \in DOMAIN workers :
        (i # j /\ workers[i].pc = "await" /\ workers[j].pc = "await")
            => workers[i].bookmarkId # workers[j].bookmarkId

\* C4 (amended): no entry of ids is in flight in two workers at the same
\* moment, and every entry in flight has left the queue; an id is in flight
\* in two workers only when it occurs more than once in ids.
C4_NoEntryInTwoWorkers ==
    /\ \A i, j \in DOMAIN workers :
          (i # j /\ workers[i].pc = "await" /\ workers[j].pc = "await")
              => /\ workers[i].entry # workers[j].entry
                 /\ (NoDuplicates(bookmarkIds)
                        => workers[i].bookmarkId # workers[j].bookmarkId)
    /\ \A i \in DOMAIN workers :
          workers[i].pc = "await"
              => /\ workers[i].entry <= total - Len(queue)
                 /\ bookmarkIds[workers[i].entry] = workers[i].bookmarkId

\* C4 witness: two workers await operations for two different ids.
C4_Witness ==
    /\ NoDuplicates(bookmarkIds)
    /\ \E i, j \in DOMAIN workers :
          /\ i # j
          /\ workers[i].pc = "await"
          /\ workers[j].pc = "await"

\* C5: in the state in which the call resolves every id has a terminal
\* outcome, the queue is empty, no operation is in flight and every worker
\* has exited after observing an empty queue.
C5_ResolvesAfterAllTerminal ==
    Resolved =>
        /\ Len(succeeded) + Len(failed) = total
        /\ queue = <<>>
        /\ InFlight = 0
        /\ \A i \in DOMAIN workers : workers[i].pc = "exitEmpty"

\* C6: provided every operation call settles, the call eventually resolves
\* having run every enqueued id to a terminal outcome.
C6_EventuallyResolvesAllTerminal ==
    <>(Resolved /\ Len(result[1].succeeded) + Len(result[1].failed) = total)

\* C7: when some operation failed, that id alone is recorded as failed: every
\* other entry of ids still has its own outcome when the call resolves, and
\* the call does resolve with the failure in its failed list.
C7_FailureDoesNotStopBatch ==
    (Resolved /\ failed # <<>>) =>
        /\ result[1].failed = failed
        /\ \A x \in Range(bookmarkIds) :
              Cardinality({i \in DOMAIN bookmarkIds : bookmarkIds[i] = x})
                = Cardinality({i \in DOMAIN succeeded : succeeded[i] = x})
                  + Cardinality({i \in DOMAIN failed : failed[i].bookmarkId = x})

\* C8: in every snapshot passed to onProgress,
\* completed + failed + inProgress <= total.
C8_SnapshotSumAtMostTotal ==
    \A k \in DOMAIN snapshots :
        snapshots[k].completed + snapshots[k].failed + snapshots[k].inProgress
            <= snapshots[k].total

\* C8 witness: a snapshot that reaches the bound while work is in progress
\* and an earlier entry has completed.
C8_Witness ==
    \E k \in DOMAIN snapshots :
        /\ snapshots[k].inProgress >= 1
        /\ snapshots[k].completed >= 1
        /\ snapshots[k].completed + snapshots[k].failed + snapshots[k].inProgress
             = snapshots[k].total

\* C9: for a run over non-empty ids, the state in which the call resolves
\* and the final snapshot satisfy completed + failed = total, and every
\* earlier snapshot has completed + failed < total.
C9_CompleteAtResolution ==
    (Resolved /\ total > 0) =>
        /\ Len(succeeded) + Len(failed) = total
        /\ options.onProgress =>
              /\ snapshots # <<>>
              /\ \A k \in DOMAIN snapshots :
                    IF k = Len(snapshots)
                    THEN snapshots[k].completed + snapshots[k].failed = total
                    ELSE snapshots[k].completed + snapshots[k].failed < total

\* C10: within one call the completed and failed counts of successive
\* progress snapshots are non-decreasing.
C10_CountsNonDecreasing ==
    \A k \in DOMAIN snapshots :
        k > 1 => /\ snapshots[k - 1].completed <= snapshots[k].completed
                 /\ snapshots[k - 1].failed <= snapshots[k].failed

\* C10 witness: a run whose snapshots saw both counts grow.
C10_Witness ==
    /\ Len(snapshots) >= 4
    /\ snapshots[Len(snapshots)].completed >= 1
    /\ snapshots[Len(snapshots)].failed >= 1
    /\ snapshots[1].completed = 0
    /\ snapshots[1].failed = 0

SnapshotDone(k) == snapshots[k].completed + snapshots[k].failed

\* C11 (as stated): for any two successive snapshots the later one has a
\* strictly larger completed + failed than the earlier one.
C11_StrictlyIncreasingDone ==
    \A k \in DOMAIN snapshots : k > 1 => SnapshotDone(k - 1) < SnapshotDone(k)

\* C11 (amended): for any two successive snapshots the later one has a
\* completed + failed that is equal to the earlier one's or larger by one;
\* no snapshot goes backward.
C11_NeverBackwardDone ==
    \A k \in DOMAIN snapshots :
        k > 1 => /\ SnapshotDone(k - 1) <= SnapshotDone(k)
                 /\ SnapshotDone(k) <= SnapshotDone(k - 1) + 1

\* C11 witness: a snapshot emitted at a claim repeats the completion count
\* of the snapshot before it, and a later one raises it.
C11_Witness ==
    \E k \in DOMAIN snapshots :
        /\ k > 2
        /\ SnapshotDone(k - 2) = SnapshotDone(k - 1)
        /\ SnapshotDone(k - 1) < SnapshotDone(k)

\* C12: with onProgress supplied it is invoked once right after each claim,
\* before that id's operation call, and once right after each success or
\* failure: there is a snapshot before the first operation call, the number
\* of snapshots is the number of claims plus the number of terminal outcomes,
\* and a run over N ids has made 2N invocations when it resolves.
C12_TwoSnapshotsPerEntry ==
    options.onProgress =>
        /\ Len(snapshots) = Len(calls) + Len(succeeded) + Len(failed)
        /\ (calls # <<>> => /\ snapshots # <<>>
                            /\ snapshots[1].inProgress = 1
                            /\ SnapshotDone(1) = 0)
        /\ (Resolved => Len(snapshots) = 2 * total)

\* C13: every snapshot reflects the aggregate state at its emission, for every
\* ids sequence, duplicates included: total = len(ids), failed = length of
\* errors, and inProgress = entries claimed but not yet terminal (of the
\* first k snapshots, completed + failed were emitted at outcomes and the
\* others at claims); the latest snapshot agrees with the current lists and
\* with the number of operations in flight.
C13_SnapshotReflectsState ==
    /\ \A k \in DOMAIN snapshots :
          /\ snapshots[k].total = total
          /\ snapshots[k].failed = Len(snapshots[k].errors)
          /\ snapshots[k].inProgress = (k - SnapshotDone(k)) - SnapshotDone(k)
    /\ snapshots # <<>> =>
          LET last == snapshots[Len(snapshots)]
          IN  /\ last.completed = Len(succeeded)
              /\ last.failed = Len(failed)
              /\ last.errors = failed
              /\ last.inProgress = InFlight

\* C14: with ids empty, for any concurrency, no worker is started, the
\* operation is never invoked, onProgress is never invoked, and the call
\* resolves with {succeeded: [], failed: []}.
C14_EmptyIdsEmptyResult ==
    total = 0 =>
        /\ workers = <<>>
        /\ calls = <<>>
        /\ snapshots = <<>>
        /\ (Resolved => result = <<[succeeded |-> <<>>, failed |-> <<>>]>>)

\* C14 witness: a call with empty ids, an onProgress callback and an explicit
\* concurrency has resolved.
C14_Witness ==
    /\ Resolved
    /\ total = 0
    /\ options.onProgress
    /\ options.concurrency = <<MaxConcurrency>>

\* C15: with concurrency <= 0 and non-empty ids the executor behaves as with
\* concurrency 1: exactly one worker is spawned, never zero, at most one
\* operation is in flight, and every id has a terminal outcome when the call
\* resolves.
C15_NonPositiveConcurrencyAsOne ==
    (Requested <= 0 /\ total > 0) =>
        /\ (pc # "spawn" => Len(workers) = 1)
        /\ InFlight <= 1
        /\ (Resolved => /\ queue = <<>>
                        /\ Len(succeeded) + Len(failed) = total)

Count(s, x) == Cardinality({i \in DOMAIN s : s[i] = x})
Awaiting(x) == Cardinality({i \in DOMAIN workers :
                              workers[i].pc = "await" /\ workers[i].bookmarkId = x})

\* C16: an operation that throws synchronously is captured like a rejection.
\* While the workers are being spawned nothing has settled yet, so every
\* failure recorded then comes from a synchronous throw: each id the
\* operation was called for is either recorded as Failed, with the message of
\* the error, or awaited by a worker, no worker has ended on the throw, and
\* nothing has reached the caller (the call is still running).
C16_SyncThrowCaptured ==
    /\ \A i \in DOMAIN workers : workers[i].pc \in {"await", "exitEmpty", "exitBreak"}
    /\ (pc = "spawn" /\ operation = "function") =>
          /\ result = <<>>
          /\ succeeded = <<>>
          /\ \A x \in Range(calls) :
                Count(calls, x) = Count(FailedIds(failed), x) + Awaiting(x)
          /\ \A i \in DOMAIN failed :
                failed[i].error \in {ErrorMessage(e) : e \in ErrorValues}

\* C16 witness: the first worker's first operation call threw synchronously;
\* the id is recorded as Failed and the worker has gone on to await the
\* operation for the next id.
C16_Witness ==
    /\ pc = "spawn"
    /\ Len(workers) = 1
    /\ workers[1].pc = "await"
    /\ Len(calls) = 2
    /\ Len(failed) = 1
    /\ failed[1].bookmarkId = calls[1]
    /\ workers[1].bookmarkId = calls[2]

\* C17: no error is dropped: every failure the catch block received appears
\* exactly once, in order, in the failed list (and in the result's failed list
\* once the call resolves), and its message is non-empty whatever was thrown.
C17_EveryFailureHasMessage ==
    /\ Len(failed) = Len(caught)
    /\ \A i \in DOMAIN failed :
          /\ failed[i].bookmarkId = caught[i].bookmarkId
          /\ failed[i].error # ""
    /\ (Resolved => result[1].failed = failed)

\* C18: a configuration error (here: a missing operation) makes the call fail
\* before any worker starts and before any id is claimed: no worker, no id in
\* progress, no snapshot, no entry in the failed list, and the call does not
\* resolve with a result.
C18_ConfigurationErrorFailsFast ==
    operation = "missing" =>
        /\ workers = <<>>
        /\ inProgress = {}
        /\ snapshots = <<>>
        /\ failed = <<>>
        /\ ~Resolved

NotFound == [isError |-> TRUE, message |-> "404 not found", str |-> "Error: 404 not found"]

\* C19: the executor does not change the error it receives: the failed list
\* mirrors, in order, what the catch block received, each entry carrying the
\* id and, for an Error, that Error's message unchanged, and the result's
\* failed list is that list.  In the worked example (ids a..e, concurrency 2,
\* the only failure being c with Error "404 not found") the result is
\* succeeded = {a, b, d, e} and failed = [{c, "404 not found"}].
C19_ErrorMessageUnchanged ==
    /\ Len(failed) = Len(caught)
    /\ \A i \in DOMAIN failed :
          /\ failed[i].bookmarkId = caught[i].bookmarkId
          /\ (caught[i].error.isError => failed[i].error = caught[i].error.message)
    /\ (Resolved => result[1].failed = failed)
    /\ (/\ Resolved
        /\ bookmarkIds = <<"a", "b", "c", "d", "e">>
        /\ Requested = 2
        /\ caught = <<[bookmarkId |-> "c", error |-> NotFound]>>)
          => /\ result[1].failed = <<[bookmarkId |-> "c", error |-> "404 not found"]>>
             /\ Range(result[1].succeeded) = {"a", "b", "d", "e"}
             /\ Len(result[1].succeeded) = 4

\* C19 witness: the worked example has resolved, the operation having failed
\* for c alone, with Error "404 not found".
C19_Witness ==
    /\ Resolved
    /\ bookmarkIds = <<"a", "b", "c", "d", "e">>
    /\ Requested = 2
    /\ caught = <<[bookmarkId |-> "c", error |-> NotFound]>>

CallInFlight(c) == Cardinality({i \in DOMAIN c.workers : c.workers[i].pc = "await"})

\* What a call shows when it runs alone with the outcomes its own operation
\* calls had: every list, set and snapshot counts ids of the call's own input
\* only, the failed list mirrors what its catch block received, its latest
\* snapshot agrees with its own lists, and its result partitions its own ids.
AsAlone(c) ==
    LET own == Range(c.bookmarkIds)
        n == Len(c.bookmarkIds)
    IN  /\ Range(c.queue) \cup Range(c.calls) \cup Range(c.succeeded)
             \cup Range(FailedIds(c.failed)) \cup c.inProgress \subseteq own
        /\ Len(c.calls) = Len(c.succeeded) + Len(c.failed) + CallInFlight(c)
        /\ Len(c.calls) + Len(c.queue) = n
        /\ c.failed = [i \in DOMAIN c.caught |->
                          [bookmarkId |-> c.caught[i].bookmarkId,
                           error |-> IF c.caught[i].error.isError
                                     THEN c.caught[i].error.message
                                     ELSE c.caught[i].error.str]]
        /\ \A k \in DOMAIN c.snapshots :
              /\ c.snapshots[k].total = n
              /\ c.snapshots[k].completed + c.snapshots[k].failed
                    + c.snapshots[k].inProgress <= n
              /\ Range(FailedIds(c.snapshots[k].errors)) \subseteq own
        /\ Len(c.snapshots) = Len(c.calls) + Len(c.succeeded) + Len(c.failed)
        /\ c.snapshots # <<>> =>
              LET last == c.snapshots[Len(c.snapshots)]
              IN  /\ last.completed = Len(c.succeeded)
                  /\ last.failed = Len(c.failed)
                  /\ last.inProgress <= CallInFlight(c)
        /\ c.pc = "resolved" =>
              /\ c.result = <<[succeeded |-> c.succeeded, failed |-> c.failed]>>
              /\ SeqToBag(c.succeeded \o FailedIds(c.failed)) = SeqToBag(c.bookmarkIds)
              /\ Len(c.snapshots) = 2 * n

\* C20: when two calls with different id sets overlap, under every
\* interleaving each call's result and progress snapshots count only that
\* call's own ids and are what the call produces when it runs alone.
C20_CallsDoNotInterfere ==
    other # <<>> => AsAlone(CallState) /\ AsAlone(other[1])

\* C20 witness: both calls have operations in flight at the same moment, and
\* the one that runs next has already recorded an outcome.
C20_Witness ==
    /\ other # <<>>
    /\ InFlight > 0
    /\ CallInFlight(other[1]) > 0
    /\ Len(succeeded) + Len(failed) > 0

\* ------------------------------------------------------------------- C21
Is2xx(response) == ~response.network /\ response.ok

C24_CallsInInputOrder ==
    /\ Len(calls) <= total
    /\ \A k \in DOMAIN calls : calls[k] = bookmarkIds[k]

\* ------------------------------------------------------------------- C25
\* C25: the failed list keeps discovery order: a failure is recorded behind
\* the failures recorded before it, which stay as they are, so the list is in
\* the order in which the catch block ran, whatever the input order.
C25_FailedInDiscoveryOrder ==
    [][/\ Len(failed') >= Len(failed)
       /\ SubSeq(failed', 1, Len(failed)) = failed
       /\ \A k \in DOMAIN failed' : failed'[k].bookmarkId = caught'[k].bookmarkId]_vars

\* An id later in the input has failed first and precedes an earlier id.
C25_Witness ==
    /\ bookmarkIds = <<"a", "b", "b">>
    /\ Len(failed) = 2
    /\ failed[1].bookmarkId = "b"
    /\ failed[2].bookmarkId = "a"

\* ------------------------------------------------------------------- C28
\* C28: the pool is work-conserving: a worker exits only when the queue is
\* empty, and once the workers are started, whenever an operation is awaited
\* and ids remain in the queue exactly min(concurrency, len(ids)) operations
\* are in flight.
C28_WorkConserving ==
    /\ \A i \in DOMAIN workers : workers[i].pc # "exitBreak"
    /\ (pc # "spawn" /\ InFlight > 0 /\ Len(queue) > 0)
          => InFlight = Min(concurrency, total)

\* ------------------------------------------------------------------- C27
\* C27: a key press outside an input invokes only the handler documented for
\* the shortcut: plain a invokes onArchive, Cmd/Ctrl+A invokes onSelectAll
\* and not onArchive; a key press aimed at an input, a textarea or a
\* content-editable element invokes no handler.
C27_OnlyDocumentedHandler ==
    keyEvent # <<>> =>
        LET e == keyEvent[1]
            given == IF handlers = <<>> THEN {} ELSE handlers[1]
        IN  /\ e.target # "BODY" => invoked = <<>>
            /\ Len(invoked) <= 1
            /\ (e.target = "BODY" /\ e.key = "a" /\ ~e.metaKey /\ ~e.ctrlKey
                   /\ "onArchive" \in given)
                  => invoked = <<Invocation("onArchive", -1)>>
            /\ (e.target = "BODY" /\ e.key = "a" /\ (e.metaKey \/ e.ctrlKey)
                   /\ "onSelectAll" \in given)
                  => invoked = <<Invocation("onSelectAll", -1)>>

\* ------------------------------------------------------------------- C26
\* C26: every step that takes selection mode from on to off leaves the
\* selection empty, and every step that takes it from off to on leaves the
\* selection as it was.
C26_ExitClearsEnterKeeps ==
    [][/\ (isSelectionMode /\ ~isSelectionMode') => selectedIds' = <<>>
       /\ (~isSelectionMode /\ isSelectionMode') => selectedIds' = selectedIds]_vars

\* toggleSelectionMode was last called in selection mode with ids selected:
\* the mode is off and nothing is selected.
C26_Witness ==
    /\ lastToggle = <<[from |-> TRUE, selected |-> TRUE]>>
    /\ ~isSelectionMode
    /\ selectedIds = <<>>

\* ------------------------------------------------------------------- C29
\* The calls started through the hook whose promise is not yet resolved.
Unresolved ==
    (IF pc \in {"spawn", "join", "resolved"} THEN 1 ELSE 0)
    + (IF other # <<>> /\ other[1].pc \in {"spawn", "join", "resolved"} THEN 1 ELSE 0)

\* C29: isRunning is true in every state in which an operation started
\* through the hook has not yet resolved, and false once all have resolved,
\* also when a second operation is started before the first resolves.
C29_RunningWhileUnresolved ==
    bulkState # <<>> => (bulkState[1].isRunning <=> Unresolved > 0)

\* ------------------------------------------------------------------- C23
\* C23: when a bulk delete started from the grid returns, exactly the
\* bookmarks whose ids are in the result's succeeded list leave the grid's
\* bookmark list; the others, those whose delete failed among them, stay, in
\* their order.
C23_ExactlySucceededRemoved ==
    [][(pc = "resolved" /\ pc' = "returned" /\ operation = "bulkDeleteBookmarks" /\ listId # "")
         => /\ \A b \in Range(bookmarks) :
                  b \in Range(bookmarks') <=> b \notin Range(result[1].succeeded)
            /\ Range(bookmarks') \subseteq Range(bookmarks)
            /\ bookmarks' = SelectSeq(bookmarks, LAMBDA b : b \in Range(bookmarks'))
            /\ \A k \in DOMAIN result[1].failed :
                  result[1].failed[k].bookmarkId \in Range(bookmarks)
                    => result[1].failed[k].bookmarkId \in Range(bookmarks')]_vars

\* A bulk delete of a and b has returned with one deleted and one failed: the
\* failed one is in the list, the deleted one is not.
C23_Witness ==
    /\ pc = "returned"
    /\ operation = "bulkDeleteBookmarks"
    /\ Len(result[1].succeeded) = 1
    /\ Len(result[1].failed) = 1
    /\ result[1].failed[1].bookmarkId \in Range(bookmarks)
    /\ result[1].succeeded[1] \notin Range(bookmarks)
    /\ listId = "inbox"
    /\ selectedIds = <<>>

\* ------------------------------------------------------------------- C30
\* C30: in the grid every selected id is the id of a bookmark the grid holds.
C30_SelectionWithinBookmarks ==
    listId # "" => Range(selectedIds) \subseteq Range(bookmarks)

\* ------------------------------------------------------------------- C22
\* C22: when the server mutation of an executeWithOptimism call fails, the
\* rollback gives the parent the bookmark it held before that call's
\* optimistic change, the call returns null, isLoading is false and error is
\* the failure message; when it succeeds, no rollback call is made, the
\* bookmark the parent holds stays and error is null.
C22_RollbackRestores ==
    [][\A m \in pending :
          pending' = pending \ {m}
            => IF ended'[1].ok
               THEN /\ ~ended'[1].rollback
                    /\ bookmark' = bookmark
                    /\ ended'[1].returns = "result"
                    /\ mutationState'.error = <<>>
               ELSE /\ bookmark' = m.before
                    /\ ended'[1].returns = "null"
                    /\ mutationState' = [isLoading |-> FALSE,
                                         error |-> ended'[1].message]]_vars

====
